---------------------------- MODULE Spec2Model ----------------------------
(***************************************************************************)
(* Model of codex-rs/core/src/exec.rs: process_exec_tool_call, the child   *)
(* it spawns, the two read_capped tasks draining the child's pipes, the    *)
(* three-way race of consume_truncated_output and the classification of    *)
(* the raw outcome.                                                        *)
(*                                                                         *)
(* Byte streams are kept run-length encoded: a stream is a sequence of     *)
(* runs [b |-> byte, n |-> count], n > 0, adjacent runs of different       *)
(* bytes.  A run of n equal bytes stands for n consecutive iterations of   *)
(* the byte loop of read_capped, so the caps keep their real values.       *)
(***************************************************************************)
EXTENDS Integers, Sequences, FiniteSets, TLC

(***************************************************************************)
(* Program constants.                                                      *)
(***************************************************************************)
MAX_STREAM_OUTPUT == 10 * 1024

MAX_STREAM_OUTPUT_LINES == 256

SIGKILL_CODE == 9

TIMEOUT_CODE == 64

DEFAULT_TIMEOUT_MS == 10000

\* let mut tmp = [0u8; 8192];
TMP_SIZE == 8192

\* b'\n'
NEWLINE == 10

(***************************************************************************)
(* Bounds of the model.                                                    *)
(***************************************************************************)
\* capacity of a pipe between the child and a capper, in bytes
PipeCap == 16384

\* a write larger than the byte cap and than the pipe
BigWrite == 40000

\* a run of newlines longer than the line cap
ManyLines == 300

\* a byte that is no newline ('x')
OTHER_BYTE == 120

\* a byte that is never valid in UTF-8 (0xFF)
BAD_BYTE == 16 * 16 - 1

\* capper-only specification: bytes written, and budgets tried
MaxStreamLen == 4

MaxByteBudget == 3

MaxLineBudget == 2

\* writable roots of a policy
MaxRoots == 2

\* a timeout_ms a request gives, in milliseconds
ShortTimeoutMs == 100

Streams == {"stdout", "stderr"}

Min(a, b) == IF a <= b THEN a ELSE b

(***************************************************************************)
(* Run-length encoded byte strings.                                        *)
(***************************************************************************)
Run(b, n) == [b |-> b, n |-> n]

RECURSIVE ByteLen(_)
ByteLen(s) == IF s = <<>> THEN 0 ELSE Head(s).n + ByteLen(Tail(s))

RECURSIVE CountByte(_, _)
CountByte(s, b) ==
    IF s = <<>> THEN 0
    ELSE (IF Head(s).b = b THEN Head(s).n ELSE 0) + CountByte(Tail(s), b)

Newlines(s) == CountByte(s, NEWLINE)

\* s followed by n bytes b
Push(s, b, n) ==
    IF n = 0 THEN s
    ELSE IF s # <<>> /\ s[Len(s)].b = b
         THEN [s EXCEPT ![Len(s)].n = @ + n]
         ELSE Append(s, Run(b, n))

\* s followed by t.  Here and below a value used more than once is bound
\* through a singleton set, so that it is computed once.
RECURSIVE Cat(_, _)
Cat(s, t) ==
    IF t = <<>> THEN s
    ELSE CHOOSE x \in {Cat(p, u) : p \in {Push(s, Head(t).b, Head(t).n)},
                                   u \in {Tail(t)}} : TRUE

\* the first n bytes of s
RECURSIVE TakeBytes(_, _)
TakeBytes(s, n) ==
    IF n = 0 \/ s = <<>> THEN <<>>
    ELSE IF Head(s).n >= n THEN << Run(Head(s).b, n) >>
         ELSE << Head(s) >> \o TakeBytes(Tail(s), n - Head(s).n)

\* s without its first n bytes
RECURSIVE DropBytes(_, _)
DropBytes(s, n) ==
    IF n = 0 \/ s = <<>> THEN s
    ELSE IF Head(s).n > n THEN << Run(Head(s).b, Head(s).n - n) >> \o Tail(s)
         ELSE DropBytes(Tail(s), n - Head(s).n)

(***************************************************************************)
(* read_capped: the byte loop over one chunk (exec.rs 521-534).            *)
(*                                                                         *)
(*   for &b in &tmp[..n] {                                                 *)
(*       if remaining_bytes == 0 || remaining_lines == 0 { break; }        *)
(*       copy_len += 1; remaining_bytes -= 1;                              *)
(*       if b == b'\n' { remaining_lines -= 1; }                           *)
(*   }                                                                     *)
(*                                                                         *)
(* Over a run of k equal bytes the loop runs min(k, remaining_bytes)       *)
(* times for a byte that is no newline and min(k, remaining_bytes,         *)
(* remaining_lines) times for a newline, and breaks in the run iff that    *)
(* is less than k.                                                         *)
(***************************************************************************)
\* mutant: the line budget is not tested
RunIterationsNoLineTest(r, remaining_bytes, remaining_lines) ==
    Min(r.n, remaining_bytes)

\* mutant: the loop breaks before the newline that would exhaust the budget
RunIterationsStopsBeforeLastNewline(r, remaining_bytes, remaining_lines) ==
    IF r.b = NEWLINE
    THEN Min(r.n, Min(remaining_bytes, remaining_lines - 1))
    ELSE Min(r.n, remaining_bytes)

RunIterations(r, remaining_bytes, remaining_lines) ==
    IF r.b = NEWLINE
    THEN Min(r.n, Min(remaining_bytes, remaining_lines))
    ELSE Min(r.n, remaining_bytes)

RECURSIVE CopyLoop(_, _, _)
CopyLoop(chunk, remaining_bytes, remaining_lines) ==
    IF chunk = <<>> \/ remaining_bytes = 0 \/ remaining_lines = 0
    THEN [copy_len |-> 0,
          remaining_bytes |-> remaining_bytes,
          remaining_lines |-> remaining_lines]
    ELSE LET r == Head(chunk)
             k == RunIterations(r, remaining_bytes, remaining_lines)
             rb == remaining_bytes - k
             rl == IF r.b = NEWLINE THEN remaining_lines - k ELSE remaining_lines
         IN  CHOOSE x \in
                {[(IF j < q.n
                   THEN [copy_len |-> 0, remaining_bytes |-> b,
                         remaining_lines |-> l]
                   ELSE CopyLoop(Tail(chunk), b, l)) EXCEPT !.copy_len = @ + j]
                 : j \in {k}, b \in {rb}, l \in {rl}, q \in {r}} : TRUE

\* mutant: the budgets are tested once per chunk, which is copied whole
ReadCappedChunkWhole(c, chunk) ==
    IF c.remaining_bytes > 0 /\ c.remaining_lines > 0
    THEN [c EXCEPT !.buf = Cat(@, chunk),
                   !.remaining_bytes =
                       IF @ > ByteLen(chunk) THEN @ - ByteLen(chunk) ELSE 0,
                   !.remaining_lines =
                       IF @ > Newlines(chunk) THEN @ - Newlines(chunk) ELSE 0]
    ELSE c

\* One iteration of the read loop for a chunk of n > 0 bytes: the capper's
\* record c after the chunk.
ReadCappedChunk(c, chunk) ==
    IF c.remaining_bytes > 0 /\ c.remaining_lines > 0
    THEN CHOOSE x \in
            {[c EXCEPT !.buf = Cat(@, TakeBytes(chunk, l.copy_len)),
                       !.remaining_bytes = l.remaining_bytes,
                       !.remaining_lines = l.remaining_lines]
             : l \in {CopyLoop(chunk, c.remaining_bytes,
                               c.remaining_lines)}} : TRUE
    ELSE c


(***************************************************************************)
(* State.                                                                  *)
(***************************************************************************)
VARIABLES
    params,       \* the arguments of process_exec_tool_call
    pc,           \* where the call is
    child,        \* the child process
    pipe,         \* the child's stdout and stderr pipes
    capper,       \* the two read_capped tasks
    race,         \* the timer, the notifier and the branch select! took
    exit_status,  \* the raw wait status consume_truncated_output holds
    raw_output,   \* the RawExecToolCallOutput it returned
    result,       \* what process_exec_tool_call returned
    written,      \* history: every byte the child wrote to each stream
    ctrl_c,       \* the notifier the concurrent calls share
    calls         \* the other calls racing on ctrl_c, each at its select!

vars == << params, pc, child, pipe, capper, race, exit_status, raw_output,
          result, written, ctrl_c, calls >>

\* no wait status yet
NoStatus == 0 - 1

(***************************************************************************)
(* The child: it performs the writes of its program in order, blocking on  *)
(* a full pipe, and then exits.  A wait status is the raw unix value.      *)
(***************************************************************************)
Write(fd, b, n) == [fd |-> fd, b |-> b, n |-> n]

ExitedRaw(code) == code * 256

SignaledRaw(sig) == sig

\* statuses a child ends with by itself: exit codes 0, 1, 2; SIGTERM;
\* signal 64 (SIGRTMAX on Linux); SIGSEGV with a core dump
NaturalStatuses ==
    {ExitedRaw(0), ExitedRaw(1), ExitedRaw(2),
     SignaledRaw(15), SignaledRaw(64), 128 + SignaledRaw(11)}

\* exe and arg0 are what Command::new and cmd.arg0 were given, args and env
\* the arguments and the environment the process starts with; todo is the
\* writes the child has still to perform.  killed: a SIGKILL was sent to it;
\* kill_refused: a kill of it failed.  heir: a process the child started,
\* which inherited the write ends of both pipes ("none", "alive", "gone")
NoChild == [state |-> "none", exe |-> "", arg0 |-> "", args |-> <<>>,
            env |-> [k \in {} |-> ""], todo |-> <<>>,
            status |-> NoStatus, killed |-> FALSE, kill_refused |-> FALSE,
            heir |-> "none"]

RunningChild(exe, arg0, todo) ==
    [state |-> "running", exe |-> exe, arg0 |-> arg0, args |-> <<>>,
     env |-> [k \in {} |-> ""], todo |-> todo,
     status |-> NoStatus, killed |-> FALSE, kill_refused |-> FALSE,
     heir |-> "none"]

EmptyPipe == [data |-> <<>>, reader |-> TRUE]

\* the write ends of both pipes are the child's and its heir's
WriterOpen == child.state = "running" \/ child.heir = "alive"

PipeSpace(s) == PipeCap - ByteLen(pipe[s].data)

ChildBlocked ==
    /\ child.state = "running"
    /\ child.todo # <<>>
    /\ pipe[Head(child.todo).fd].reader
    /\ PipeSpace(Head(child.todo).fd) = 0

ChildWrite ==
    /\ child.state = "running"
    /\ child.todo # <<>>
    /\ LET op == Head(child.todo)
           s == op.fd
           m == Min(PipeSpace(s), op.n)
       IN  /\ pipe[s].reader
           /\ m > 0
           /\ pipe' = [pipe EXCEPT ![s].data = Push(@, op.b, m)]
           /\ written' = [written EXCEPT ![s] = Push(@, op.b, m)]
           /\ child' = [child EXCEPT !.todo =
                            IF m = op.n THEN Tail(@)
                            ELSE << Write(s, op.b, op.n - m) >> \o Tail(@)]
    /\ UNCHANGED << ctrl_c, calls, params, pc, capper, race, exit_status, raw_output, result >>

\* a write to a pipe whose read end is closed: SIGPIPE (13) ends the child
ChildSigpipe ==
    /\ child.state = "running"
    /\ child.todo # <<>>
    /\ ~pipe[Head(child.todo).fd].reader
    /\ child' = [child EXCEPT !.state = "exited", !.todo = <<>>,
                              !.status = SignaledRaw(13)]
    /\ UNCHANGED << ctrl_c, calls, params, pc, pipe, capper, race, exit_status, raw_output,
                    result, written >>

ChildExit ==
    /\ child.state = "running"
    /\ child.todo = <<>>
    /\ \E st \in NaturalStatuses :
          child' = [child EXCEPT !.state = "exited", !.status = st]
    /\ UNCHANGED << ctrl_c, calls, params, pc, pipe, capper, race, exit_status, raw_output,
                    result, written >>

\* Before it exits the child starts a process that inherits its stdout and
\* stderr, writes nothing and outlives it (sh -c 'sleep 60 &').
ChildForks ==
    /\ child.state = "running"
    /\ child.todo = <<>>
    /\ child.heir = "none"
    /\ child' = [child EXCEPT !.heir = "alive"]
    /\ UNCHANGED << ctrl_c, calls, params, pc, pipe, capper, race, exit_status, raw_output,
                    result, written >>

\* that process ends, whenever it does
HeirExits ==
    /\ child.heir = "alive"
    /\ child' = [child EXCEPT !.heir = "gone"]
    /\ UNCHANGED << ctrl_c, calls, params, pc, pipe, capper, race, exit_status, raw_output,
                    result, written >>

\* SIGKILL, sent by start_kill, reaches the child
ChildKilled ==
    /\ child.state = "running"
    /\ child.killed
    /\ child' = [child EXCEPT !.state = "exited", !.todo = <<>>,
                              !.status = SignaledRaw(SIGKILL_CODE)]
    /\ UNCHANGED << ctrl_c, calls, params, pc, pipe, capper, race, exit_status, raw_output,
                    result, written >>

(***************************************************************************)
(* read_capped as a task: one action per reader.read(&mut tmp).await.      *)
(* consumed and cut are history: the bytes read so far, and whether a      *)
(* chunk was copied in part, a budget running out in its middle.           *)
(***************************************************************************)
NoCapper == [pc |-> "unspawned", buf |-> <<>>, remaining_bytes |-> 0,
             remaining_lines |-> 0, max_output |-> 0, max_lines |-> 0,
             consumed |-> 0, cut |-> FALSE]

ReadCappedStart(max_output, max_lines) ==
    [pc |-> "reading", buf |-> <<>>, remaining_bytes |-> max_output,
     remaining_lines |-> max_lines, max_output |-> max_output,
     max_lines |-> max_lines, consumed |-> 0, cut |-> FALSE]

\* mutant: nothing is read once a budget is exhausted
CapperReadStopsAtCap(s) ==
    /\ capper[s].pc = "reading"
    /\ pipe[s].data # <<>>
    /\ capper[s].remaining_bytes > 0
    /\ capper[s].remaining_lines > 0
    /\ \E n \in {Min(ByteLen(pipe[s].data), TMP_SIZE)} :
       \E chunk \in {TakeBytes(pipe[s].data, n)} :
       \E after \in {ReadCappedChunk(capper[s], chunk)} :
          /\ capper' = [capper EXCEPT ![s] =
                           [after EXCEPT
                               !.consumed = @ + n,
                               !.cut = @ \/ (/\ after.buf # capper[s].buf
                                             /\ ByteLen(after.buf)
                                                  < ByteLen(capper[s].buf) + n)]]
          /\ pipe' = [pipe EXCEPT ![s].data = DropBytes(@, n)]
    /\ UNCHANGED << ctrl_c, calls, params, pc, child, race, exit_status, raw_output, result,
                    written >>

\* a read of a pipe returns what is there, up to the length of tmp
CapperRead(s) ==
    /\ capper[s].pc = "reading"
    /\ pipe[s].data # <<>>
    /\ \E n \in {Min(ByteLen(pipe[s].data), TMP_SIZE)} :
       \E chunk \in {TakeBytes(pipe[s].data, n)} :
       \E after \in {ReadCappedChunk(capper[s], chunk)} :
          /\ capper' = [capper EXCEPT ![s] =
                           [after EXCEPT
                               !.consumed = @ + n,
                               !.cut = @ \/ (/\ after.buf # capper[s].buf
                                             /\ ByteLen(after.buf)
                                                  < ByteLen(capper[s].buf) + n)]]
          /\ pipe' = [pipe EXCEPT ![s].data = DropBytes(@, n)]
    /\ UNCHANGED << ctrl_c, calls, params, pc, child, race, exit_status, raw_output, result,
                    written >>

\* mutant: the loop is also left once a budget is exhausted
CapperReturnsAtCap(s) ==
    /\ capper[s].pc = "reading"
    /\ \/ pipe[s].data = <<>> /\ child.state # "running"
       \/ capper[s].consumed > 0 /\ capper[s].remaining_bytes = 0
       \/ capper[s].consumed > 0 /\ capper[s].remaining_lines = 0
    /\ capper' = [capper EXCEPT ![s].pc = "ok"]
    /\ pipe' = [pipe EXCEPT ![s].reader = FALSE]
    /\ UNCHANGED << ctrl_c, calls, params, pc, child, race, exit_status, raw_output, result,
                    written >>

\* n == 0: the pipe is empty and its write end is closed; Ok(buf)
CapperEOF(s) ==
    /\ capper[s].pc = "reading"
    /\ pipe[s].data = <<>>
    /\ ~WriterOpen
    /\ capper' = [capper EXCEPT ![s].pc = "ok"]
    /\ pipe' = [pipe EXCEPT ![s].reader = FALSE]
    /\ UNCHANGED << ctrl_c, calls, params, pc, child, race, exit_status, raw_output, result,
                    written >>

\* reader.read(..).await? fails: the error is returned, buf is dropped
CapperReadError(s) ==
    /\ capper[s].pc = "reading"
    /\ capper' = [capper EXCEPT ![s].pc = "err", ![s].buf = <<>>]
    /\ pipe' = [pipe EXCEPT ![s].reader = FALSE]
    /\ UNCHANGED << ctrl_c, calls, params, pc, child, race, exit_status, raw_output, result,
                    written >>

(***************************************************************************)
(* read_capped alone: one reader with any budgets, fed by a writer that    *)
(* writes any bytes one at a time and then closes the pipe.                *)
(***************************************************************************)
SeqsUpTo(S, n) == UNION {[1..k -> S] : k \in 0..n}

CapPrograms ==
    SeqsUpTo({Write("stdout", b, 1) : b \in {OTHER_BYTE, NEWLINE}}, MaxStreamLen)

\* The inputs of process_exec_tool_call: ExecParams, the selector, the
\* policy, the helper path, and the environment of the calling process.
Request(command, sandbox_type, codex_linux_sandbox_exe, cwd, timeout_ms, env, sandbox_policy, parent_env) ==
    [command |-> command, sandbox_type |-> sandbox_type,
     codex_linux_sandbox_exe |-> codex_linux_sandbox_exe, cwd |-> cwd,
     timeout_ms |-> timeout_ms, env |-> env, sandbox_policy |-> sandbox_policy,
     parent_env |-> parent_env]

NoPolicy == [full_disk_read |-> TRUE, full_disk_write |-> TRUE,
             full_network |-> TRUE, writable_roots |-> [c \in {} |-> <<>>]]

NoParams == Request(<<>>, "None", <<>>, <<>>, <<>>, [k \in {} |-> ""],
                    NoPolicy, [k \in {} |-> ""])

\* a notifier nobody has notified
NoNotifier == [fires |-> 0, woken |-> {}]

NoRace == [timer_elapsed |-> FALSE, notified |-> FALSE, branch |-> "none",
           kill_requested |-> FALSE, deadline_passed |-> FALSE]

NoResult == [tag |-> "none", n |-> 0, stdout |-> <<>>, stderr |-> <<>>]

NoRawOutput == [exit_status |-> NoStatus, stdout |-> <<>>, stderr |-> <<>>]

InitCap ==
    /\ params = NoParams
    /\ pc = "none"
    /\ \E todo \in CapPrograms : child = RunningChild("writer", "writer", todo)
    /\ pipe = [s \in Streams |-> EmptyPipe]
    /\ \E max_output \in 0..MaxByteBudget, max_lines \in 0..MaxLineBudget :
          capper = [s \in Streams |->
                       IF s = "stdout"
                       THEN ReadCappedStart(max_output, max_lines)
                       ELSE NoCapper]
    /\ race = NoRace
    /\ exit_status = NoStatus
    /\ raw_output = NoRawOutput
    /\ result = NoResult
    /\ written = [s \in Streams |-> <<>>]
    /\ ctrl_c = NoNotifier
    /\ calls = <<>>

NextCap ==
    \/ ChildWrite
    \/ ChildExit
    \/ CapperRead("stdout")
    \/ CapperEOF("stdout")

SpecCap == InitCap /\ [][NextCap]_vars

(***************************************************************************)
(* Results of process_exec_tool_call.  Text is a sequence of runs of code  *)
(* points.                                                                 *)
(***************************************************************************)
OkOutput(exit_code, stdout, stderr) ==
    [tag |-> "Ok", n |-> exit_code, stdout |-> stdout, stderr |-> stderr]

SandboxDenied(exit_code, stdout, stderr) ==
    [tag |-> "Sandbox.Denied", n |-> exit_code, stdout |-> stdout,
     stderr |-> stderr]

SandboxTimeout ==
    [tag |-> "Sandbox.Timeout", n |-> 0, stdout |-> <<>>, stderr |-> <<>>]

SandboxSignal(signal) ==
    [tag |-> "Sandbox.Signal", n |-> signal, stdout |-> <<>>, stderr |-> <<>>]

\* CodexErr::Io with the io::ErrorKind
IoError(kind) ==
    [tag |-> "Io." \o kind, n |-> 0, stdout |-> <<>>, stderr |-> <<>>]

LandlockSandboxExecutableNotProvided ==
    [tag |-> "LandlockSandboxExecutableNotProvided", n |-> 0,
     stdout |-> <<>>, stderr |-> <<>>]

(***************************************************************************)
(* std::process::ExitStatus on unix, over the raw wait status.             *)
(***************************************************************************)
AsI8(v) == IF v % 256 >= 128 THEN (v % 256) - 256 ELSE v % 256

\* mutant: the signal is the whole raw value
ExitStatusSignalWholeRaw(raw) == IF raw % 128 # 0 THEN << raw >> ELSE <<>>

\* WIFSIGNALED(s) = ((s & 0x7f) + 1) as i8 >> 1 > 0;  WTERMSIG(s) = s & 0x7f
ExitStatusSignal(raw) ==
    IF (AsI8((raw % 128) + 1) \div 2) > 0 THEN << raw % 128 >> ELSE <<>>

\* WIFEXITED(s) = (s & 0x7f) == 0;  WEXITSTATUS(s) = (s >> 8) & 0xff
ExitStatusCode(raw) ==
    IF raw % 128 = 0 THEN << (raw \div 256) % 256 >> ELSE <<>>

\* mutant: the code is made an exit code, not a raw wait status
synthetic_exit_status_as_exit_code(code) == code * 256

\* ExitStatus::from_raw(code)
synthetic_exit_status(code) == code

(***************************************************************************)
(* String::from_utf8_lossy, on the bytes of the model: an ASCII byte is    *)
(* its own code point, the byte 0xFF is an invalid sequence of length one  *)
(* and becomes U+FFFD.                                                     *)
(***************************************************************************)
REPLACEMENT_CHARACTER == 65533

LossyByte(b) == IF b < 128 THEN b ELSE REPLACEMENT_CHARACTER

from_utf8_lossy(bytes) ==
    [i \in 1..Len(bytes) |-> Run(LossyByte(bytes[i].b), bytes[i].n)]

\* mutant: the selector is not tested
ClassifyDeniesUnsandboxed(raw, sandbox_type) ==
    LET stdout == from_utf8_lossy(raw.stdout)
        stderr == from_utf8_lossy(raw.stderr)
        signal == ExitStatusSignal(raw.exit_status)
        code == ExitStatusCode(raw.exit_status)
        exit_code == IF code = <<>> THEN -1 ELSE code[1]
    IN  IF signal # <<>>
        THEN IF signal[1] = TIMEOUT_CODE
             THEN SandboxTimeout
             ELSE SandboxSignal(signal[1])
        ELSE IF exit_code # 0
             THEN SandboxDenied(exit_code, stdout, stderr)
             ELSE OkOutput(exit_code, stdout, stderr)

\* mutant: the exit code is tested before the signal
ClassifyCodeBeforeSignal(raw, sandbox_type) ==
    LET stdout == from_utf8_lossy(raw.stdout)
        stderr == from_utf8_lossy(raw.stderr)
        signal == ExitStatusSignal(raw.exit_status)
        code == ExitStatusCode(raw.exit_status)
        exit_code == IF code = <<>> THEN -1 ELSE code[1]
    IN  IF exit_code # 0 /\ sandbox_type # "None"
        THEN SandboxDenied(exit_code, stdout, stderr)
        ELSE IF signal # <<>>
             THEN IF signal[1] = TIMEOUT_CODE
                  THEN SandboxTimeout
                  ELSE SandboxSignal(signal[1])
             ELSE OkOutput(exit_code, stdout, stderr)

(***************************************************************************)
(* process_exec_tool_call, lines 131-168: the classification of what       *)
(* consume_truncated_output returned.                                      *)
(***************************************************************************)
Classify(raw, sandbox_type) ==
    LET stdout == from_utf8_lossy(raw.stdout)
        stderr == from_utf8_lossy(raw.stderr)
        signal == ExitStatusSignal(raw.exit_status)
        code == ExitStatusCode(raw.exit_status)
        exit_code == IF code = <<>> THEN -1 ELSE code[1]
    IN  IF signal # <<>>
        THEN IF signal[1] = TIMEOUT_CODE
             THEN SandboxTimeout
             ELSE SandboxSignal(signal[1])
        ELSE IF exit_code # 0 /\ sandbox_type # "None"
             THEN SandboxDenied(exit_code, stdout, stderr)
             ELSE OkOutput(exit_code, stdout, stderr)

(***************************************************************************)
(* Paths, environments and the sandbox policy.                             *)
(*                                                                         *)
(* A PathBuf is a sequence of pieces of text; the piece INVALID_BYTE is a  *)
(* byte that is not valid UTF-8.  A HashMap<String, String> is a function  *)
(* from names to values.                                                   *)
(***************************************************************************)
CODEX_SANDBOX_NETWORK_DISABLED_ENV_VAR == "CODEX_SANDBOX_NETWORK_DISABLED"

INVALID_BYTE == "<FF>"

\* Path::to_str: None unless the whole path is valid UTF-8
RECURSIVE to_str(_)
to_str(path) ==
    IF path = <<>> THEN << "" >>
    ELSE IF Head(path) = INVALID_BYTE \/ to_str(Tail(path)) = <<>> THEN <<>>
         ELSE << Head(path) \o to_str(Tail(path))[1] >>

\* Path::to_string_lossy: an invalid byte becomes U+FFFD
RECURSIVE to_string_lossy(_)
to_string_lossy(path) ==
    IF path = <<>> THEN ""
    ELSE (IF Head(path) = INVALID_BYTE THEN "<U+FFFD>" ELSE Head(path))
            \o to_string_lossy(Tail(path))

NoEnv == [k \in {} |-> ""]

\* HashMap::insert of every entry of g into f
Override(f, g) ==
    [k \in DOMAIN f \cup DOMAIN g |-> IF k \in DOMAIN g THEN g[k] ELSE f[k]]

\* The queries of SandboxPolicy (crate::protocol): a policy is the record of
\* their answers, writable_roots being a function of the cwd.
has_full_disk_read_access(sandbox_policy) == sandbox_policy.full_disk_read

has_full_disk_write_access(sandbox_policy) == sandbox_policy.full_disk_write

has_full_network_access(sandbox_policy) == sandbox_policy.full_network

get_writable_roots_with_cwd(sandbox_policy, cwd) ==
    sandbox_policy.writable_roots[cwd]

(***************************************************************************)
(* The argument lists.  A String that the code assembles is kept as the    *)
(* sequence of the pieces it is assembled from (its text is their          *)
(* concatenation), so an argument is a sequence of pieces too.             *)
(***************************************************************************)
Str(s) == << s >>

Strs(strings) == [i \in 1..Len(strings) |-> Str(strings[i])]

\* serde_json::to_string(sandbox_policy): one text per policy
PolicyJson(sandbox_policy) == << ToString(sandbox_policy) >>

\* defined for a cwd that is valid UTF-8; the code panics otherwise
create_linux_sandbox_command_args(command, sandbox_policy, cwd) ==
    << Str(to_str(cwd)[1]), PolicyJson(sandbox_policy), Str("--") >>
        \o Strs(command)

MACOS_SEATBELT_BASE_POLICY == << "<seatbelt_base_policy.sbpl>" >>

\* format!("WRITABLE_ROOT_{index}")
ParamName(index) == "WRITABLE_ROOT_" \o ToString(index)

\* format!("(subpath (param \"{param_name}\"))")
SubpathPolicy(index) == << "(subpath (param \"", ParamName(index), "\"))" >>

\* format!("-D{param_name}={}", root.to_string_lossy())
SubpathCliArg(index, root) ==
    << "-D", ParamName(index), "=", to_string_lossy(root) >>

\* writable_folder_policies.join(" ")
RECURSIVE JoinWithSpace(_)
JoinWithSpace(texts) ==
    IF texts = <<>> THEN <<>>
    ELSE IF Len(texts) = 1 THEN Head(texts)
         ELSE Head(texts) \o << " " >> \o JoinWithSpace(Tail(texts))

\* mutant: the fragment is built although there is no writable root
SeatbeltFileWriteNoEmptyCheck(sandbox_policy, cwd) ==
    IF has_full_disk_write_access(sandbox_policy)
    THEN [file_write_policy |-> << "(allow file-write* (regex #\"^/\"))" >>,
          extra_cli_args |-> <<>>]
    ELSE LET writable_roots == get_writable_roots_with_cwd(sandbox_policy, cwd)
         IN  [file_write_policy |->
                 << "(allow file-write*\n" >>
                    \o JoinWithSpace([i \in 1..Len(writable_roots) |->
                                         SubpathPolicy(i - 1)])
                    \o << "\n)" >>,
              extra_cli_args |-> [i \in 1..Len(writable_roots) |->
                                     SubpathCliArg(i - 1, writable_roots[i])]]

\* mutant: the bindings are made although the policy has full disk write
SeatbeltFileWriteKeepsBindings(sandbox_policy, cwd) ==
    LET writable_roots == get_writable_roots_with_cwd(sandbox_policy, cwd)
        cli_args == [i \in 1..Len(writable_roots) |->
                        SubpathCliArg(i - 1, writable_roots[i])]
    IN  IF has_full_disk_write_access(sandbox_policy)
        THEN [file_write_policy |-> << "(allow file-write* (regex #\"^/\"))" >>,
              extra_cli_args |-> cli_args]
        ELSE [file_write_policy |->
                 IF writable_roots = <<>> THEN <<>>
                 ELSE << "(allow file-write*\n" >>
                         \o JoinWithSpace([i \in 1..Len(writable_roots) |->
                                              SubpathPolicy(i - 1)])
                         \o << "\n)" >>,
              extra_cli_args |-> cli_args]

\* lines 256-285: (file_write_policy, extra_cli_args)
SeatbeltFileWrite(sandbox_policy, cwd) ==
    IF has_full_disk_write_access(sandbox_policy)
    THEN [file_write_policy |-> << "(allow file-write* (regex #\"^/\"))" >>,
          extra_cli_args |-> <<>>]
    ELSE LET writable_roots == get_writable_roots_with_cwd(sandbox_policy, cwd)
             writable_folder_policies ==
                 [i \in 1..Len(writable_roots) |-> SubpathPolicy(i - 1)]
             cli_args == [i \in 1..Len(writable_roots) |->
                             SubpathCliArg(i - 1, writable_roots[i])]
         IN  IF writable_folder_policies = <<>>
             THEN [file_write_policy |-> <<>>, extra_cli_args |-> <<>>]
             ELSE [file_write_policy |->
                      << "(allow file-write*\n" >>
                         \o JoinWithSpace(writable_folder_policies)
                         \o << "\n)" >>,
                   extra_cli_args |-> cli_args]

\* mutant: the command is put before the separator
create_seatbelt_command_args_separator_last(command, sandbox_policy, cwd) ==
    << Str("-p"), MACOS_SEATBELT_BASE_POLICY >>
        \o SeatbeltFileWrite(sandbox_policy, cwd).extra_cli_args
        \o Strs(command) \o << Str("--") >>

create_seatbelt_command_args(command, sandbox_policy, cwd) ==
    LET file_write == SeatbeltFileWrite(sandbox_policy, cwd)
        file_read_policy ==
            IF has_full_disk_read_access(sandbox_policy)
            THEN << "; allow read-only file operations\n(allow file-read*)" >>
            ELSE <<>>
        network_policy ==
            IF has_full_network_access(sandbox_policy)
            THEN << "(allow network-outbound)\n(allow network-inbound)\n(allow system-socket)" >>
            ELSE <<>>
        full_policy ==
            MACOS_SEATBELT_BASE_POLICY \o << "\n" >> \o file_read_policy
                \o << "\n" >> \o file_write.file_write_policy
                \o << "\n" >> \o network_policy
    IN  << Str("-p"), full_policy >> \o file_write.extra_cli_args
            \o << Str("--") >> \o Strs(command)

(***************************************************************************)
(* tokio::process::Command as spawn_child_async uses it (381-391): a new   *)
(* Command inherits the environment of the calling process, env_clear      *)
(* ends that, envs and env set variables.                                  *)
(***************************************************************************)
CommandNew(program) ==
    [program |-> program, arg0 |-> program, args |-> <<>>, clear |-> FALSE,
     vars |-> NoEnv]

env_clear(cmd) == [cmd EXCEPT !.clear = TRUE, !.vars = NoEnv]

envs(cmd, env) == [cmd EXCEPT !.vars = Override(@, env)]

cmd_env(cmd, key, val) ==
    [cmd EXCEPT !.vars = Override(@, [k \in {key} |-> val])]

\* the environment the spawned process starts with
SpawnedEnv(cmd, parent_env) ==
    IF cmd.clear THEN cmd.vars ELSE Override(parent_env, cmd.vars)

\* mutant: the environment of the calling process is not cleared
BuildCommandInheritsEnv(program, args, arg0, sandbox_policy, env) ==
    LET c1 == [CommandNew(program) EXCEPT !.arg0 = arg0, !.args = args]
        c2 == envs(c1, env)
    IN  IF ~has_full_network_access(sandbox_policy)
        THEN cmd_env(c2, CODEX_SANDBOX_NETWORK_DISABLED_ENV_VAR, "1")
        ELSE c2

\* mutant: the marker is set for every policy
BuildCommandAlwaysMarks(program, args, arg0, sandbox_policy, env) ==
    LET c1 == [CommandNew(program) EXCEPT !.arg0 = arg0, !.args = args]
        c2 == envs(env_clear(c1), env)
    IN  cmd_env(c2, CODEX_SANDBOX_NETWORK_DISABLED_ENV_VAR, "1")

\* lines 381-391; arg0 is what cmd.arg0 is given
BuildCommand(program, args, arg0, sandbox_policy, env) ==
    LET c1 == [CommandNew(program) EXCEPT !.arg0 = arg0, !.args = args]
        c2 == envs(env_clear(c1), env)
    IN  IF ~has_full_network_access(sandbox_policy)
        THEN cmd_env(c2, CODEX_SANDBOX_NETWORK_DISABLED_ENV_VAR, "1")
        ELSE c2

(***************************************************************************)
(* process_exec_tool_call, lines 86-128, with exec (335-351),              *)
(* spawn_command_under_seatbelt (178-188) and                              *)
(* spawn_command_under_linux_sandbox (210-220): what the selector makes    *)
(* of the request, an error returned before any spawn or the program and   *)
(* argv[0] handed to spawn_child_async.                                    *)
(***************************************************************************)
MACOS_PATH_TO_SEATBELT_EXECUTABLE == "/usr/bin/sandbox-exec"

DispatchError(err) == [kind |-> "error", err |-> err, program |-> "", arg0 |-> ""]

DispatchSpawn(program, arg0) ==
    [kind |-> "spawn", err |-> NoResult, program |-> program, arg0 |-> arg0]

\* cwd.to_str().expect("cwd must be valid UTF-8") panics
DispatchPanic == [kind |-> "panic", err |-> NoResult, program |-> "", arg0 |-> ""]

\* mutant: without a helper path the helper is looked up by its name
DispatchHelperByName(p) ==
    CASE p.sandbox_type = "None" ->
            IF p.command = <<>>
            THEN DispatchError(IoError("InvalidInput"))
            ELSE DispatchSpawn(Head(p.command), Head(p.command))
      [] p.sandbox_type = "MacosSeatbelt" ->
            DispatchSpawn(MACOS_PATH_TO_SEATBELT_EXECUTABLE,
                          MACOS_PATH_TO_SEATBELT_EXECUTABLE)
      [] p.sandbox_type = "LinuxSeccomp" ->
            IF p.codex_linux_sandbox_exe = <<>>
            THEN DispatchSpawn("codex-linux-sandbox", "codex-linux-sandbox")
            ELSE DispatchSpawn(p.codex_linux_sandbox_exe[1], "codex-linux-sandbox")

Dispatch(p) ==
    CASE p.sandbox_type = "None" ->
            IF p.command = <<>>
            THEN DispatchError(IoError("InvalidInput"))
            ELSE DispatchSpawn(Head(p.command), Head(p.command))
      [] p.sandbox_type = "MacosSeatbelt" ->
            DispatchSpawn(MACOS_PATH_TO_SEATBELT_EXECUTABLE,
                          MACOS_PATH_TO_SEATBELT_EXECUTABLE)
      [] p.sandbox_type = "LinuxSeccomp" ->
            IF p.codex_linux_sandbox_exe = <<>>
            THEN DispatchError(LandlockSandboxExecutableNotProvided)
            ELSE IF to_str(p.cwd) = <<>>
                 THEN DispatchPanic
                 ELSE DispatchSpawn(p.codex_linux_sandbox_exe[1],
                                    "codex-linux-sandbox")

\* the args handed to spawn_child_async when Dispatch(p) is a spawn
SpawnArgs(p) ==
    CASE p.sandbox_type = "None" -> Strs(Tail(p.command))
      [] p.sandbox_type = "MacosSeatbelt" ->
            create_seatbelt_command_args(p.command, p.sandbox_policy, p.cwd)
      [] p.sandbox_type = "LinuxSeccomp" ->
            create_linux_sandbox_command_args(p.command, p.sandbox_policy, p.cwd)

\* the Command spawn_child_async builds for the request
RequestCommand(p) ==
    BuildCommand(Dispatch(p).program, SpawnArgs(p), Dispatch(p).arg0,
                 p.sandbox_policy, p.env)

(***************************************************************************)
(* What the spawned program writes: the behaviours of a child the model    *)
(* tries.                                                                  *)
(***************************************************************************)
Programs ==
    { <<>>,
      << Write("stdout", OTHER_BYTE, 2), Write("stdout", NEWLINE, 1) >>,
      << Write("stdout", OTHER_BYTE, BigWrite) >>,
      << Write("stdout", NEWLINE, ManyLines) >>,
      << Write("stdout", OTHER_BYTE, BigWrite),
         Write("stderr", NEWLINE, ManyLines) >>,
      << Write("stderr", OTHER_BYTE, BigWrite),
         Write("stdout", BAD_BYTE, 1), Write("stdout", OTHER_BYTE, 1) >>,
      << Write("stdout", NEWLINE, MAX_STREAM_OUTPUT_LINES - 1),
         Write("stdout", OTHER_BYTE, 3), Write("stdout", NEWLINE, 1),
         Write("stdout", OTHER_BYTE, 2) >> }

Commands == { <<>>, << "/bin/prog", "-arg" >> }

SandboxTypes == {"None", "MacosSeatbelt", "LinuxSeccomp"}

HelperOptions == { <<>>, << "/opt/codex-linux-sandbox" >> }

\* a cwd that is valid UTF-8 and one that is not
WorkDir == << "/work" >>

BadDir == << "/w", INVALID_BYTE, "rk" >>

Cwds == { WorkDir, BadDir }

\* writable_roots(cwd): the first n of three roots, the cwd among them
WritableRootsOptions ==
    { [cwd \in Cwds |->
          SubSeq(<< << "/tmp" >>, cwd, << "/var/", INVALID_BYTE >> >>, 1, n)]
      : n \in 0..MaxRoots }

Policies ==
    [full_disk_read : BOOLEAN, full_disk_write : BOOLEAN,
     full_network : BOOLEAN, writable_roots : WritableRootsOptions]

\* workspace-write without network
DefaultPolicy ==
    [full_disk_read |-> TRUE, full_disk_write |-> FALSE,
     full_network |-> FALSE,
     writable_roots |-> [cwd \in Cwds |-> << cwd >>]]

EnvNames == { CODEX_SANDBOX_NETWORK_DISABLED_ENV_VAR, "HOME" }

EnvValues == { "0", "1" }

Envs == UNION { [names -> EnvValues] : names \in SUBSET EnvNames }

DefaultEnv == [k \in { "HOME" } |-> "1"]

\* environments of the calling process
PlainParentEnv == [k \in { "PATH" } |-> "/usr/bin"]

ParentEnvs ==
    { PlainParentEnv,
      [k \in { "PATH", "SECRET", CODEX_SANDBOX_NETWORK_DISABLED_ENV_VAR } |->
          IF k = "PATH" THEN "/evil" ELSE "1"] }

TimeoutOptions == { <<>>, << 0 >>, << ShortTimeoutMs >> }

\* mutant: the default whatever the option holds
unwrap_or_takes_default(option, default) == default

\* Option::unwrap_or
unwrap_or(option, default) == IF option = <<>> THEN default ELSE option[1]

\* every selector, command and helper option, and the request whose cwd is
\* not valid UTF-8
Requests ==
    { Request(command, sandbox_type, helper, WorkDir, <<>>, DefaultEnv,
              DefaultPolicy, PlainParentEnv)
      : command \in Commands, sandbox_type \in SandboxTypes,
        helper \in HelperOptions }
    \cup
    { Request(<< "/bin/prog", "-arg" >>, "LinuxSeccomp",
              << "/opt/codex-linux-sandbox" >>, BadDir, <<>>, DefaultEnv,
              DefaultPolicy, PlainParentEnv) }

Init ==
    /\ params \in Requests
    /\ pc = "entry"
    /\ child = NoChild
    /\ pipe = [s \in Streams |-> EmptyPipe]
    /\ capper = [s \in Streams |-> NoCapper]
    /\ race = NoRace
    /\ exit_status = NoStatus
    /\ raw_output = NoRawOutput
    /\ result = NoResult
    /\ written = [s \in Streams |-> <<>>]
    /\ ctrl_c = NoNotifier
    /\ calls = <<>>

\* the selector's `?`: the error is returned, nothing was spawned
ReturnDispatchError ==
    /\ pc = "entry"
    /\ Dispatch(params).kind = "error"
    /\ result' = Dispatch(params).err
    /\ pc' = "returned"
    /\ UNCHANGED << ctrl_c, calls, params, child, pipe, capper, race, exit_status,
                    raw_output, written >>

\* create_linux_sandbox_command_args panics: the call never returns
DispatchPanics ==
    /\ pc = "entry"
    /\ Dispatch(params).kind = "panic"
    /\ pc' = "panicked"
    /\ UNCHANGED << ctrl_c, calls, params, child, pipe, capper, race, exit_status,
                    raw_output, result, written >>

\* spawn_child_async: cmd.kill_on_drop(true).spawn() gives a child
SpawnChild ==
    /\ pc = "entry"
    /\ Dispatch(params).kind = "spawn"
    /\ \E todo \in Programs :
       \E cmd \in { RequestCommand(params) } :
          child' = [RunningChild(cmd.program, cmd.arg0, todo) EXCEPT
                       !.args = cmd.args,
                       !.env = SpawnedEnv(cmd, params.parent_env)]
    /\ pc' = "consume"
    /\ UNCHANGED << ctrl_c, calls, params, pipe, capper, race, exit_status, raw_output,
                    result, written >>

\* spawn() fails: the io::Error is returned
SpawnFails ==
    /\ pc = "entry"
    /\ Dispatch(params).kind = "spawn"
    /\ result' = IoError("Other")
    /\ pc' = "returned"
    /\ UNCHANGED << ctrl_c, calls, params, child, pipe, capper, race, exit_status,
                    raw_output, written >>

(***************************************************************************)
(* consume_truncated_output.                                               *)
(***************************************************************************)
\* mutant: kill_on_drop(false)
DropChildWithoutKill(c) == { c }

\* The Child handle is dropped when consume_truncated_output returns:
\* kill_on_drop(true) sends SIGKILL unless wait() has reaped the child; the
\* kill succeeds or the operating system refuses it, and the error of a
\* refused kill is dropped.  The children the drop may leave.
DropChild(c) ==
    IF c.state \in {"running", "exited"}
    THEN { [c EXCEPT !.killed = TRUE], [c EXCEPT !.kill_refused = TRUE] }
    ELSE { c }

\* mutant: no signal is sent
StartKillSendsNothing(c) == c

\* child.start_kill() returned Ok
StartKill(c) == [c EXCEPT !.killed = TRUE]

\* lines 450-473: the pipes are taken (both are piped under
\* RedirectForShellTool), the two cappers are spawned with the caps, the
\* Notified future and the timeout are created
StartRace ==
    /\ pc = "consume"
    /\ capper' = [s \in Streams |->
                     ReadCappedStart(MAX_STREAM_OUTPUT, MAX_STREAM_OUTPUT_LINES)]
    /\ pc' = "race"
    /\ UNCHANGED << ctrl_c, calls, params, child, pipe, race, exit_status, raw_output,
                    result, written >>

\* the duration given to tokio::time::timeout has passed
TimerElapses ==
    /\ pc = "race"
    /\ ~race.timer_elapsed
    /\ race' = [race EXCEPT !.timer_elapsed = TRUE]
    /\ UNCHANGED << ctrl_c, calls, params, pc, child, pipe, capper, exit_status, raw_output,
                    result, written >>

\* the duration passes after select! has completed and dropped the timer:
\* nothing waits for it any more
DeadlinePasses ==
    /\ pc \in {"join_stdout", "join_stderr"}
    /\ ~race.timer_elapsed
    /\ ~race.deadline_passed
    /\ race' = [race EXCEPT !.deadline_passed = TRUE]
    /\ UNCHANGED << ctrl_c, calls, params, pc, child, pipe, capper, exit_status,
                    raw_output, result, written >>

\* ctrl_c is notified
NotifierFires ==
    /\ pc = "race"
    /\ ~race.notified
    /\ race' = [race EXCEPT !.notified = TRUE]
    /\ UNCHANGED << ctrl_c, calls, params, pc, child, pipe, capper, exit_status, raw_output,
                    result, written >>

\* mutant: an elapsed timer wins over an exit that is ready
SelectExitAfterTimer ==
    /\ pc = "race"
    /\ child.state = "exited"
    /\ exit_status' = IF race.timer_elapsed
                      THEN synthetic_exit_status(128 + TIMEOUT_CODE)
                      ELSE child.status
    /\ child' = [child EXCEPT !.state = "reaped"]
    /\ race' = [race EXCEPT !.branch = "exit"]
    /\ pc' = "join_stdout"
    /\ UNCHANGED << ctrl_c, calls, params, pipe, capper, raw_output, result, written >>

\* Ok(Ok(exit_status)): timeout() polls child.wait() before its timer, so
\* an exit is taken even when the timer has elapsed too
SelectExit ==
    /\ pc = "race"
    /\ child.state = "exited"
    /\ exit_status' = child.status
    /\ child' = [child EXCEPT !.state = "reaped"]
    /\ race' = [race EXCEPT !.branch = "exit"]
    /\ pc' = "join_stdout"
    /\ UNCHANGED << ctrl_c, calls, params, pipe, capper, raw_output, result, written >>

\* Ok(e) => e?: child.wait() failed
SelectWaitError ==
    /\ pc = "race"
    /\ child.state = "exited"
    /\ race' = [race EXCEPT !.branch = "wait_error"]
    /\ result' = IoError("Other")
    /\ child' \in DropChild(child)
    /\ pc' = "returned"
    /\ UNCHANGED << ctrl_c, calls, params, pipe, capper, exit_status, raw_output, written >>

\* mutant: the status is synthesized without a kill
SelectTimeoutWithoutKill ==
    /\ pc = "race"
    /\ race.timer_elapsed
    /\ child.state = "running"
    /\ race' = [race EXCEPT !.branch = "timeout"]
    /\ exit_status' = synthetic_exit_status(128 + TIMEOUT_CODE)
    /\ pc' = "join_stdout"
    /\ UNCHANGED << ctrl_c, calls, params, child, pipe, capper, raw_output, result, written >>

\* Err(_): the timer elapsed and child.wait() was not ready
SelectTimeout ==
    /\ pc = "race"
    /\ race.timer_elapsed
    /\ child.state = "running"
    /\ \/ /\ child' = StartKill(child)
          /\ race' = [race EXCEPT !.branch = "timeout", !.kill_requested = TRUE]
          /\ exit_status' = synthetic_exit_status(128 + TIMEOUT_CODE)
          /\ pc' = "join_stdout"
          /\ UNCHANGED result
       \/ \* child.start_kill()? fails
          /\ child' \in DropChild([child EXCEPT !.kill_refused = TRUE])
          /\ race' = [race EXCEPT !.branch = "timeout", !.kill_requested = TRUE]
          /\ result' = IoError("Other")
          /\ pc' = "returned"
          /\ UNCHANGED exit_status
    /\ UNCHANGED << ctrl_c, calls, params, pipe, capper, raw_output, written >>

\* _ = interrupted: select! takes any branch that is ready
SelectInterrupt ==
    /\ pc = "race"
    /\ race.notified
    /\ \/ /\ child' = StartKill(child)
          /\ race' = [race EXCEPT !.branch = "interrupt",
                                  !.kill_requested = TRUE]
          /\ exit_status' = synthetic_exit_status(128 + SIGKILL_CODE)
          /\ pc' = "join_stdout"
          /\ UNCHANGED result
       \/ \* child.start_kill()? fails
          /\ child' \in DropChild([child EXCEPT !.kill_refused = TRUE])
          /\ race' = [race EXCEPT !.branch = "interrupt",
                                  !.kill_requested = TRUE]
          /\ result' = IoError("Other")
          /\ pc' = "returned"
          /\ UNCHANGED exit_status
    /\ UNCHANGED << ctrl_c, calls, params, pipe, capper, raw_output, written >>

\* let stdout = stdout_handle.await??;
JoinStdout ==
    /\ pc = "join_stdout"
    /\ \/ /\ capper["stdout"].pc = "ok"
          /\ pc' = "join_stderr"
          /\ UNCHANGED << child, result >>
       \/ /\ capper["stdout"].pc = "err"
          /\ result' = IoError("Other")
          /\ child' \in DropChild(child)
          /\ pc' = "returned"
    /\ UNCHANGED << ctrl_c, calls, params, pipe, capper, race, exit_status, raw_output,
                    written >>

\* mutant: an error of the stderr capper is taken for an empty stderr
JoinStderrIgnoresError ==
    /\ pc = "join_stderr"
    /\ capper["stderr"].pc \in {"ok", "err"}
    /\ raw_output' = [exit_status |-> exit_status,
                      stdout |-> capper["stdout"].buf,
                      stderr |-> capper["stderr"].buf]
    /\ result' = Classify(raw_output', params.sandbox_type)
    /\ child' \in DropChild(child)
    /\ pc' = "returned"
    /\ UNCHANGED << ctrl_c, calls, params, pipe, capper, race, exit_status, written >>

\* let stderr = stderr_handle.await??; Ok(RawExecToolCallOutput {..}), which
\* process_exec_tool_call classifies at once
JoinStderr ==
    /\ pc = "join_stderr"
    /\ \/ /\ capper["stderr"].pc = "ok"
          /\ raw_output' = [exit_status |-> exit_status,
                            stdout |-> capper["stdout"].buf,
                            stderr |-> capper["stderr"].buf]
          /\ result' = Classify(raw_output', params.sandbox_type)
       \/ /\ capper["stderr"].pc = "err"
          /\ result' = IoError("Other")
          /\ UNCHANGED raw_output
    /\ child' \in DropChild(child)
    /\ pc' = "returned"
    /\ UNCHANGED << ctrl_c, calls, params, pipe, capper, race, exit_status, written >>

Next ==
    \/ ReturnDispatchError
    \/ DispatchPanics
    \/ SpawnChild
    \/ SpawnFails
    \/ StartRace
    \/ TimerElapses
    \/ DeadlinePasses
    \/ NotifierFires
    \/ SelectExit
    \/ SelectWaitError
    \/ SelectTimeout
    \/ SelectInterrupt
    \/ JoinStdout
    \/ JoinStderr
    \/ ChildWrite
    \/ ChildSigpipe
    \/ ChildExit
    \/ ChildForks
    \/ HeirExits
    \/ ChildKilled
    \/ \E s \in Streams : CapperRead(s)
    \/ \E s \in Streams : CapperEOF(s)
    \/ \E s \in Streams : CapperReadError(s)

Spec == Init /\ [][Next]_vars

(***************************************************************************)
(* The spawn alone, for every request: selector, command, helper path,     *)
(* cwd, env, policy and environment of the calling process.                *)
(***************************************************************************)
SpawnCommands == Commands \cup { << "-p", "--", "-x" >> }

InitSpawn ==
    /\ params \in { Request(command, sandbox_type, helper, cwd, <<>>, env,
                             sandbox_policy, parent_env)
                     : command \in SpawnCommands, sandbox_type \in SandboxTypes,
                       helper \in HelperOptions, cwd \in Cwds, env \in Envs,
                       sandbox_policy \in Policies, parent_env \in ParentEnvs }
    /\ pc = "entry"
    /\ child = NoChild
    /\ pipe = [s \in Streams |-> EmptyPipe]
    /\ capper = [s \in Streams |-> NoCapper]
    /\ race = NoRace
    /\ exit_status = NoStatus
    /\ raw_output = NoRawOutput
    /\ result = NoResult
    /\ written = [s \in Streams |-> <<>>]
    /\ ctrl_c = NoNotifier
    /\ calls = <<>>

NextSpawn ==
    \/ ReturnDispatchError
    \/ DispatchPanics
    \/ SpawnChild
    \/ SpawnFails

SpecSpawn == InitSpawn /\ [][NextSpawn]_vars

(***************************************************************************)
(* The call of a child that is left to run: the timer does not elapse,     *)
(* the notifier does not fire, no spawn, wait or read fails and the child   *)
(* starts no process of its own.  The                                      *)
(* child is an OS process and the cappers and the caller are tasks of the  *)
(* runtime: each runs when it can.                                         *)
(***************************************************************************)
NextNatural ==
    \/ ReturnDispatchError
    \/ DispatchPanics
    \/ SpawnChild
    \/ StartRace
    \/ SelectExit
    \/ JoinStdout
    \/ JoinStderr
    \/ ChildWrite
    \/ ChildExit
    \/ \E s \in Streams : CapperRead(s)
    \/ \E s \in Streams : CapperEOF(s)

FairNatural ==
    /\ WF_vars(ChildWrite \/ ChildExit)
    /\ \A s \in Streams : WF_vars(CapperRead(s) \/ CapperEOF(s))
    /\ WF_vars(ReturnDispatchError \/ DispatchPanics \/ SpawnChild
               \/ StartRace \/ SelectExit
               \/ JoinStdout \/ JoinStderr)

SpecNatural == Init /\ [][NextNatural]_vars /\ FairNatural

(***************************************************************************)
(* Several calls of consume_truncated_output that share one ctrl_c: each   *)
(* has its own child, timer and Notified future.  Only the race, lines     *)
(* 472-491, is followed; a call that left its select! is at "join" or has  *)
(* returned the error of start_kill or of wait; the futures of its select! *)
(* are dropped then.                                                       *)
(***************************************************************************)
\* how many calls share the notifier
NumCalls == 2

\* how many times the notifier is fired
MaxFires == 1

CallIds == 1..NumCalls

\* a call that has spawned its child and has not created its futures yet
NewCall(timeout_ms) ==
    [pc |-> "consume", timeout_ms |-> timeout_ms, timeout |-> <<>>,
     elapsed |-> 0, interrupted |-> "none", timer_elapsed |-> FALSE,
     branch |-> "none", kill_requested |-> FALSE, exit_status |-> NoStatus,
     child |-> RunningChild("/bin/prog", "/bin/prog", <<>>)]

\* let interrupted = ctrl_c.notified(): the future is woken by the next
\* notification of the waiters;
\* let timeout = Duration::from_millis(timeout_ms.unwrap_or(DEFAULT_TIMEOUT_MS)),
\* kept in ms
CallStartRace(c) ==
    /\ calls[c].pc = "consume"
    /\ calls' = [calls EXCEPT
                    ![c].pc = "race", ![c].interrupted = "pending",
                    ![c].timeout =
                        << unwrap_or(calls[c].timeout_ms, DEFAULT_TIMEOUT_MS) >>]
    /\ UNCHANGED << ctrl_c, params, pc, child, pipe, capper, race,
                    exit_status, raw_output, result, written >>

\* the owner of ctrl_c notifies its waiters: every Notified future that
\* exists and is pending becomes ready, and no permit is kept for a future
\* created later
NotifyWaiters ==
    /\ ctrl_c.fires < MaxFires
    /\ \E waiting \in { {c \in CallIds : calls[c].interrupted = "pending"} } :
          /\ ctrl_c' = [fires |-> ctrl_c.fires + 1,
                        woken |-> ctrl_c.woken \cup waiting]
          /\ calls' = [c \in CallIds |->
                          IF c \in waiting
                          THEN [calls[c] EXCEPT !.interrupted = "ready"]
                          ELSE calls[c]]
    /\ UNCHANGED << params, pc, child, pipe, capper, race, exit_status,
                    raw_output, result, written >>

\* the child of call c exits by itself
CallChildExits(c) ==
    /\ calls[c].child.state = "running"
    /\ ~calls[c].child.killed
    /\ calls[c].pc \in {"consume", "race"}
    /\ calls' = [calls EXCEPT ![c].child.state = "exited",
                              ![c].child.status = ExitedRaw(0)]
    /\ UNCHANGED << ctrl_c, params, pc, child, pipe, capper, race,
                    exit_status, raw_output, result, written >>

\* time passes for call c, until its timer is due
CallTimePasses(c) ==
    /\ calls[c].pc = "race"
    /\ calls[c].elapsed < calls[c].timeout[1]
    /\ calls' = [calls EXCEPT ![c].elapsed = calls[c].timeout[1]]
    /\ UNCHANGED << ctrl_c, params, pc, child, pipe, capper, race,
                    exit_status, raw_output, result, written >>

\* the timer of tokio::time::timeout(timeout, ..) of call c completes: not
\* before the duration has passed since it was created
CallTimerElapses(c) ==
    /\ calls[c].pc = "race"
    /\ ~calls[c].timer_elapsed
    /\ calls[c].elapsed >= calls[c].timeout[1]
    /\ calls' = [calls EXCEPT ![c].timer_elapsed = TRUE]
    /\ UNCHANGED << ctrl_c, params, pc, child, pipe, capper, race,
                    exit_status, raw_output, result, written >>

\* Ok(Ok(exit_status)) => exit_status, or Ok(e) => e?
CallSelectExit(c) ==
    /\ calls[c].pc = "race"
    /\ calls[c].child.state = "exited"
    /\ \/ calls' = [calls EXCEPT ![c].pc = "join", ![c].branch = "exit",
                                 ![c].interrupted = "none",
                                 ![c].exit_status = calls[c].child.status,
                                 ![c].child.state = "reaped"]
       \/ \E dropped \in DropChild(calls[c].child) :
             calls' = [calls EXCEPT ![c].pc = "returned",
                                    ![c].branch = "wait_error",
                                    ![c].interrupted = "none",
                                    ![c].child = dropped]
    /\ UNCHANGED << ctrl_c, params, pc, child, pipe, capper, race,
                    exit_status, raw_output, result, written >>

\* Err(_) => { child.start_kill()?; synthetic_exit_status(128 + TIMEOUT_CODE) }
CallSelectTimeout(c) ==
    /\ calls[c].pc = "race"
    /\ calls[c].timer_elapsed
    /\ calls[c].child.state = "running"
    /\ \/ calls' = [calls EXCEPT
                       ![c].pc = "join", ![c].branch = "timeout",
                       ![c].interrupted = "none",
                       ![c].kill_requested = TRUE,
                       ![c].child = StartKill(calls[c].child),
                       ![c].exit_status =
                           synthetic_exit_status(128 + TIMEOUT_CODE)]
       \/ \E dropped \in DropChild([calls[c].child
                                       EXCEPT !.kill_refused = TRUE]) :
             calls' = [calls EXCEPT ![c].pc = "returned",
                                    ![c].branch = "timeout",
                                    ![c].interrupted = "none",
                                    ![c].kill_requested = TRUE,
                                    ![c].child = dropped]
    /\ UNCHANGED << ctrl_c, params, pc, child, pipe, capper, race,
                    exit_status, raw_output, result, written >>

\* mutant: the call that takes the notification takes it from the others
CallSelectInterruptTakesPermit(c) ==
    /\ calls[c].pc = "race"
    /\ calls[c].interrupted = "ready"
    /\ calls' = [d \in CallIds |->
                    IF d = c
                    THEN [calls[c] EXCEPT
                             !.pc = "join", !.branch = "interrupt",
                             !.interrupted = "none",
                             !.kill_requested = TRUE,
                             !.child = StartKill(calls[c].child),
                             !.exit_status =
                                 synthetic_exit_status(128 + SIGKILL_CODE)]
                    ELSE IF calls[d].interrupted = "ready"
                         THEN [calls[d] EXCEPT !.interrupted = "pending"]
                         ELSE calls[d]]
    /\ UNCHANGED << ctrl_c, params, pc, child, pipe, capper, race,
                    exit_status, raw_output, result, written >>

\* _ = interrupted => { child.start_kill()?;
\* synthetic_exit_status(128 + SIGKILL_CODE) }: the call's own future is
\* ready; nothing of ctrl_c or of another call changes
CallSelectInterrupt(c) ==
    /\ calls[c].pc = "race"
    /\ calls[c].interrupted = "ready"
    /\ \/ calls' = [calls EXCEPT
                       ![c].pc = "join", ![c].branch = "interrupt",
                       ![c].interrupted = "none",
                       ![c].kill_requested = TRUE,
                       ![c].child = StartKill(calls[c].child),
                       ![c].exit_status =
                           synthetic_exit_status(128 + SIGKILL_CODE)]
       \/ \E dropped \in DropChild([calls[c].child
                                       EXCEPT !.kill_refused = TRUE]) :
             calls' = [calls EXCEPT ![c].pc = "returned",
                                    ![c].branch = "interrupt",
                                    ![c].interrupted = "none",
                                    ![c].kill_requested = TRUE,
                                    ![c].child = dropped]
    /\ UNCHANGED << ctrl_c, params, pc, child, pipe, capper, race,
                    exit_status, raw_output, result, written >>

InitShared ==
    /\ params = NoParams
    /\ pc = "none"
    /\ child = NoChild
    /\ pipe = [s \in Streams |-> EmptyPipe]
    /\ capper = [s \in Streams |-> NoCapper]
    /\ race = NoRace
    /\ exit_status = NoStatus
    /\ raw_output = NoRawOutput
    /\ result = NoResult
    /\ written = [s \in Streams |-> <<>>]
    /\ ctrl_c = NoNotifier
    \* the first call is given any timeout_ms, the others none
    /\ \E timeout_ms \in TimeoutOptions :
          calls = [c \in CallIds |->
                      NewCall(IF c = 1 THEN timeout_ms ELSE <<>>)]

NextShared ==
    \/ NotifyWaiters
    \/ \E c \in CallIds : CallStartRace(c)
    \/ \E c \in CallIds : CallChildExits(c)
    \/ \E c \in CallIds : CallTimePasses(c)
    \/ \E c \in CallIds : CallTimerElapses(c)
    \/ \E c \in CallIds : CallSelectExit(c)
    \/ \E c \in CallIds : CallSelectTimeout(c)
    \/ \E c \in CallIds : CallSelectInterrupt(c)

SpecShared == InitShared /\ [][NextShared]_vars

(***************************************************************************)
(* Properties.                                                             *)
(***************************************************************************)
WithinCaps(bytes, max_output, max_lines) ==
    /\ ByteLen(bytes) <= max_output
    /\ Newlines(bytes) <= max_lines

\* C1: at every step of read_capped and in its result the buffer holds at
\* most max_output bytes and at most max_lines newlines; stdout and stderr of
\* every RawExecToolCallOutput hold at most 10240 bytes and 256 newlines
\* each, and a stream that exhausts neither budget is captured whole
\* whatever the other stream holds.
C1_OutputCap ==
    /\ \A s \in Streams :
          WithinCaps(capper[s].buf, capper[s].max_output, capper[s].max_lines)
    /\ raw_output # NoRawOutput =>
          /\ WithinCaps(raw_output.stdout, 10240, 256)
          /\ WithinCaps(raw_output.stderr, 10240, 256)
          /\ WithinCaps(written["stdout"], 10240, 255) =>
                raw_output.stdout = written["stdout"]
          /\ WithinCaps(written["stderr"], 10240, 255) =>
                raw_output.stderr = written["stderr"]

\* a call returned stdout cut at the byte cap and stderr cut at the line cap
C1_Witness ==
    /\ pc = "returned"
    /\ result.tag = "Ok"
    /\ ByteLen(written["stdout"]) > 10240
    /\ ByteLen(raw_output.stdout) = 10240
    /\ Newlines(written["stderr"]) > 256
    /\ Newlines(raw_output.stderr) = 256

\* the position just after the k-th newline of s; the length of s when s
\* has fewer than k newlines
PosAfterNthNewline(s, k) ==
    LET hits == {i \in 0..ByteLen(s) : Newlines(TakeBytes(s, i)) = k}
    IN  IF hits = {} THEN ByteLen(s)
        ELSE CHOOSE i \in hits : \A j \in hits : i <= j

CappedPrefix(s, max_output, max_lines) ==
    TakeBytes(s, Min(Min(ByteLen(s), max_output),
                     PosAfterNthNewline(s, max_lines)))

\* C2 as stated: the buffer of read_capped is the prefix of the stream of
\* length min(length, B, p), p the position just after the L-th newline, and
\* a stream within both budgets (at most B bytes, at most L newlines) is
\* captured whole; stated here for positive budgets only.
C2_AsStated ==
    LET c == capper["stdout"]
    IN  c.pc = "ok" /\ c.max_output > 0 /\ c.max_lines > 0 =>
           /\ c.buf = CappedPrefix(written["stdout"], c.max_output, c.max_lines)
           /\ WithinCaps(written["stdout"], c.max_output, c.max_lines) =>
                 c.buf = written["stdout"]

\* C2 (amended): for every stream, chunking and budgets B, L the buffer of
\* read_capped is the prefix of the bytes read so far of length
\* min(length, B, p), p the position just after the L-th newline; the buffer
\* it returns is that prefix of the whole stream; a stream of at most B bytes
\* is captured whole when it has fewer than L newlines or its L-th newline
\* is its last byte.
C2_InclusionRule ==
    LET c == capper["stdout"]
        seen == TakeBytes(written["stdout"], c.consumed)
        s == written["stdout"]
    IN  c.pc \in {"reading", "ok"} =>
           /\ c.buf = CappedPrefix(seen, c.max_output, c.max_lines)
           /\ c.pc = "ok" =>
                 /\ seen = s
                 /\ ( /\ ByteLen(s) <= c.max_output
                      /\ \/ Newlines(s) < c.max_lines
                         \/ /\ Newlines(s) = c.max_lines
                            /\ s # <<>>
                            /\ s[Len(s)].b = NEWLINE ) => c.buf = s

\* read_capped returned a buffer that ends with the newline that exhausted
\* the line budget, with bytes of the stream after it left out
C2_Witness ==
    LET c == capper["stdout"]
    IN  /\ c.pc = "ok"
        /\ c.max_lines > 0
        /\ c.remaining_lines = 0
        /\ c.remaining_bytes > 0
        /\ c.buf # <<>>
        /\ c.buf[Len(c.buf)].b = NEWLINE
        /\ ByteLen(written["stdout"]) > ByteLen(c.buf)

\* C4: read_capped returns Ok only after a read reported EOF: the pipe is
\* empty, its write end is closed and every byte written was read.
C4_DrainToEOF ==
    \A s \in Streams :
       capper[s].pc = "ok" =>
          /\ pipe[s].data = <<>>
          /\ ~WriterOpen
          /\ capper[s].consumed = ByteLen(written[s])

\* read_capped returned after reading more bytes than its byte budget
C4_Witness ==
    \E s \in Streams :
       /\ capper[s].pc = "ok"
       /\ capper[s].remaining_bytes = 0
       /\ capper[s].consumed > capper[s].max_output
       /\ capper[s].consumed = ByteLen(written[s])

\* C3: a child left to run that writes more than the caps and than a pipe
\* holds, in any order of its two streams, always gets past a full pipe,
\* writes everything, ends with a status of its own, and the call returns
\* the outcome of consume_truncated_output.
C3_BackPressureFree ==
    /\ ChildBlocked ~> ~ChildBlocked
    /\ (child.state = "running") ~>
          (child.state \in {"exited", "reaped"} /\ child.todo = <<>>
              /\ child.status \in NaturalStatuses)
    /\ (pc = "consume") ~> (pc = "returned" /\ raw_output # NoRawOutput
                               /\ raw_output.exit_status = child.status)

\* the child waits on a full pipe whose capper has spent its byte budget
C3_Witness ==
    /\ ChildBlocked
    /\ capper[Head(child.todo).fd].pc = "reading"
    /\ capper[Head(child.todo).fd].remaining_bytes = 0

\* C5: with an empty command, whatever the selector, no child is spawned and
\* the call returns CodexErr::Io of kind InvalidInput.
C5_EmptyCommandLaw ==
    params.command = <<>> =>
       /\ child.state = "none"
       /\ pc = "returned" => result = IoError("InvalidInput")

\* C6: with the selector LinuxSeccomp and no helper path the call spawns
\* nothing and returns LandlockSandboxExecutableNotProvided, for every
\* command.
C6_NoHelperLaw ==
    (params.sandbox_type = "LinuxSeccomp"
        /\ params.codex_linux_sandbox_exe = <<>>) =>
       /\ child.state = "none"
       /\ pc \in {"entry", "returned"}
       /\ pc = "returned" => result = LandlockSandboxExecutableNotProvided

\* a call with a command, LinuxSeccomp and no helper path has returned
C6_Witness ==
    /\ params.sandbox_type = "LinuxSeccomp"
    /\ params.codex_linux_sandbox_exe = <<>>
    /\ params.command # <<>>
    /\ pc = "returned"
    /\ result.tag = "LandlockSandboxExecutableNotProvided"

\* C7: a raw outcome whose status is a plain exit with code c is Denied(c,
\* stdout, stderr) under MacosSeatbelt and LinuxSeccomp when c # 0, and Ok
\* with exit_code c and the same stdout and stderr otherwise.
C7_DenialClassification ==
    raw_output # NoRawOutput =>
       \A c \in 0..255 :
          raw_output.exit_status = c * 256 =>
             result =
                IF c # 0 /\ params.sandbox_type \in {"MacosSeatbelt", "LinuxSeccomp"}
                THEN [tag |-> "Sandbox.Denied", n |-> c,
                      stdout |-> from_utf8_lossy(raw_output.stdout),
                      stderr |-> from_utf8_lossy(raw_output.stderr)]
                ELSE [tag |-> "Ok", n |-> c,
                      stdout |-> from_utf8_lossy(raw_output.stdout),
                      stderr |-> from_utf8_lossy(raw_output.stderr)]

\* a sandboxed child that wrote to stdout and exited with code 1 was
\* reported as denied
C7_Witness ==
    /\ pc = "returned"
    /\ params.sandbox_type = "MacosSeatbelt"
    /\ raw_output.exit_status = 256
    /\ raw_output.stdout # <<>>
    /\ result.tag = "Sandbox.Denied"
    /\ result.n = 1

\* C8: a raw outcome whose status carries a signal n is Sandbox(Timeout)
\* when n = 64 and Sandbox(Signal(n)) otherwise, whatever the selector and
\* whatever an exit-code test would say.
C8_SignalClassification ==
    raw_output # NoRawOutput =>
       \A n \in 1..126 :
          raw_output.exit_status % 128 = n =>
             result = IF n = 64
                      THEN [tag |-> "Sandbox.Timeout", n |-> 0,
                            stdout |-> <<>>, stderr |-> <<>>]
                      ELSE [tag |-> "Sandbox.Signal", n |-> n,
                            stdout |-> <<>>, stderr |-> <<>>]

\* a sandboxed child ended by SIGTERM was reported as Signal(15)
C8_Witness ==
    /\ pc = "returned"
    /\ params.sandbox_type = "LinuxSeccomp"
    /\ race.branch = "exit"
    /\ raw_output.exit_status = 15
    /\ result.tag = "Sandbox.Signal"
    /\ result.n = 15

\* C9 as stated: whenever the timeout branch decided the race, the kill was
\* requested, the status is 128+64 and the call's result is Sandbox(Timeout).
C9_AsStated ==
    (race.branch = "timeout" /\ pc = "returned") =>
       /\ race.kill_requested
       /\ exit_status = 128 + 64
       /\ result = SandboxTimeout

\* C9 (amended): when the timeout branch decides the race, start_kill is
\* requested and the child is never waited for; if start_kill succeeds the
\* status 128+64 is synthesized, the cappers are joined and the result is
\* Sandbox(Timeout) when both return Ok; if start_kill or a capper fails the
\* result is that I/O error.
C9_TimeoutPath ==
    race.branch = "timeout" =>
       /\ race.kill_requested
       /\ child.state \in {"running", "exited"}
       /\ child.killed \/ child.kill_refused
       /\ pc \in {"join_stdout", "join_stderr", "returned"}
       /\ pc \in {"join_stdout", "join_stderr"} =>
             child.killed /\ exit_status = 128 + 64
       /\ pc = "returned" =>
             result = IF /\ exit_status = 128 + 64
                         /\ capper["stdout"].pc = "ok"
                         /\ capper["stderr"].pc = "ok"
                      THEN SandboxTimeout
                      ELSE IoError("Other")

\* a call whose timer elapsed returned Sandbox(Timeout) with the child not
\* reaped
C9_Witness ==
    /\ race.branch = "timeout"
    /\ pc = "returned"
    /\ result = SandboxTimeout
    /\ child.state # "reaped"
    /\ written["stdout"] # <<>>

\* C10 as stated: whenever the interrupt branch decided the race, the kill
\* was requested, the status is 128+9 and the call's result is
\* Sandbox(Signal(9)).
C10_AsStated ==
    (race.branch = "interrupt" /\ pc = "returned") =>
       /\ race.kill_requested
       /\ exit_status = 128 + 9
       /\ result = SandboxSignal(9)

\* C10 (amended): when the interrupt branch decides the race, start_kill is
\* requested; if it succeeds the status 128+9 is synthesized, the cappers
\* are joined and the result is Sandbox(Signal(9)) for every selector when
\* both return Ok; if start_kill or a capper fails the result is that I/O
\* error.
C10_InterruptPath ==
    race.branch = "interrupt" =>
       /\ race.kill_requested
       /\ race.notified
       /\ child.state \in {"running", "exited"}
       /\ child.killed \/ child.kill_refused
       /\ pc \in {"join_stdout", "join_stderr", "returned"}
       /\ pc \in {"join_stdout", "join_stderr"} =>
             child.killed /\ exit_status = 128 + 9
       /\ pc = "returned" =>
             result = IF /\ exit_status = 128 + 9
                         /\ capper["stdout"].pc = "ok"
                         /\ capper["stderr"].pc = "ok"
                      THEN SandboxSignal(9)
                      ELSE IoError("Other")

\* an interrupted call without a sandbox returned Sandbox(Signal(9))
C10_Witness ==
    /\ race.branch = "interrupt"
    /\ pc = "returned"
    /\ params.sandbox_type = "None"
    /\ result = SandboxSignal(9)
    /\ ~race.timer_elapsed

Marker == CODEX_SANDBOX_NETWORK_DISABLED_ENV_VAR

Spawned == child.state # "none"

\* C11 as stated: the child's environment holds the marker exactly when the
\* policy lacks full network access, and then with the value "1".
C11_AsStated ==
    Spawned =>
       /\ Marker \in DOMAIN child.env
             <=> ~params.sandbox_policy.full_network
       /\ Marker \in DOMAIN child.env => child.env[Marker] = "1"

\* C11 (amended): for every selector, env and policy, when the policy lacks
\* full network access the child's environment holds the marker with the
\* value "1"; when full network access is allowed the call adds no marker:
\* the child's environment holds it only if the request's env does, with the
\* value env gives it.
C11_SandboxMarker ==
    Spawned =>
       IF ~params.sandbox_policy.full_network
       THEN /\ Marker \in DOMAIN child.env
            /\ child.env[Marker] = "1"
       ELSE /\ Marker \in DOMAIN child.env <=> Marker \in DOMAIN params.env
            /\ Marker \in DOMAIN child.env =>
                  child.env[Marker] = params.env[Marker]

\* an unsandboxed child without network access was spawned with the marker
\* "1" although the request's env gave the marker the value "0"
C11_Witness ==
    /\ Spawned
    /\ params.sandbox_type = "None"
    /\ ~params.sandbox_policy.full_network
    /\ Marker \in DOMAIN params.env
    /\ params.env[Marker] = "0"
    /\ child.env[Marker] = "1"

\* C12: the child's environment is the request's env, with the marker mapped
\* to "1" when the policy lacks full network access, whatever the
\* environment of the calling process holds.
C12_EnvIsolation ==
    Spawned =>
       IF ~params.sandbox_policy.full_network
       THEN /\ DOMAIN child.env = DOMAIN params.env \cup { Marker }
            /\ \A k \in DOMAIN child.env :
                  child.env[k] = IF k = Marker THEN "1" ELSE params.env[k]
       ELSE child.env = params.env

\* a child was spawned by a process whose environment holds SECRET, and the
\* child's environment does not
C12_Witness ==
    /\ Spawned
    /\ "SECRET" \in DOMAIN params.parent_env
    /\ "HOME" \in DOMAIN child.env
    /\ "SECRET" \notin DOMAIN child.env
    /\ "PATH" \notin DOMAIN child.env

\* C13 as stated: whenever the call returns after a child was spawned, the
\* child has been reaped or a SIGKILL has been sent to it.
C13_AsStated ==
    (pc = "returned" /\ Spawned) =>
       child.state = "reaped" \/ child.killed

\* C13 (amended): whenever the call returns after a child was spawned, the
\* child has been reaped by wait (the exit branch) or a kill of it has been
\* requested, by start_kill or by the drop of the handle; the kill was sent
\* unless the operating system refused it, and after a timeout or an
\* interrupt that does not end in an I/O error it was sent.
C13_ReapedOrKillRequested ==
    (pc = "returned" /\ Spawned) =>
       /\ race.branch = "exit" => child.state = "reaped"
       /\ race.branch # "exit" =>
             /\ child.state \in {"running", "exited"}
             /\ child.killed \/ child.kill_refused
       /\ (race.branch \in {"timeout", "interrupt"}
              /\ result.tag \in {"Sandbox.Timeout", "Sandbox.Signal"}) =>
             child.killed

\* child.wait() failed and the call returned: the child was not reaped and
\* the drop of its handle sent the kill
C13_Witness ==
    /\ pc = "returned"
    /\ race.branch = "wait_error"
    /\ child.state = "exited"
    /\ child.killed
    /\ ~child.kill_refused

\* the steps the child, the cappers and the caller can take by themselves
\* once the race is decided
CallProgress ==
    \/ ChildWrite
    \/ ChildSigpipe
    \/ ChildExit
    \/ ChildForks
    \/ ChildKilled
    \/ \E s \in Streams : CapperRead(s)
    \/ \E s \in Streams : CapperEOF(s)
    \/ JoinStdout
    \/ JoinStderr

\* C14: on the timeout path and on the interrupt path, once start_kill has
\* been requested and the cappers are being joined, the call is never stuck
\* short of its return: the child, a capper or the join can take a step
\* (without which the cappers cannot eventually observe EOF nor the call
\* eventually return).
C14_CompletionAfterKill ==
    (race.branch \in {"timeout", "interrupt"}
        /\ pc \in {"join_stdout", "join_stderr"}) => ENABLED CallProgress

\* the index of the first "--" of an argument list; 0 when it has none
FirstSeparator(args) ==
    LET at == {i \in 1..Len(args) : args[i] = << "--" >>}
    IN  IF at = {} THEN 0 ELSE CHOOSE i \in at : \A j \in at : i <= j

\* the arguments between the policy text and the first "--"
Bindings(args) == SubSeq(args, 3, FirstSeparator(args) - 1)

\* C15: under MacosSeatbelt the program spawned is /usr/bin/sandbox-exec
\* whatever the env, the parent's PATH and the command are, and its
\* arguments are "-p", the policy text (which opens with the base policy),
\* then -D bindings only, then the first "--", then the elements of the
\* command, all of them, verbatim and in order.
C15_SeatbeltLayout ==
    (Spawned /\ params.sandbox_type = "MacosSeatbelt") =>
       LET args == child.args
           k == FirstSeparator(args)
       IN  /\ child.exe = "/usr/bin/sandbox-exec"
           /\ Len(args) >= 3
           /\ args[1] = << "-p" >>
           /\ args[2] # <<>> /\ args[2][1] = "<seatbelt_base_policy.sbpl>"
           /\ k >= 3
           /\ \A i \in 3..(k - 1) : args[i][1] = "-D"
           /\ Len(args) = k + Len(params.command)
           /\ \A i \in 1..Len(params.command) :
                 args[k + i] = << params.command[i] >>

\* sandbox-exec was spawned for a command whose elements are "-p", "--" and
\* "-x", with a binding before the separator
C15_Witness ==
    /\ Spawned
    /\ params.sandbox_type = "MacosSeatbelt"
    /\ params.command = << "-p", "--", "-x" >>
    /\ FirstSeparator(child.args) = 4
    /\ Len(child.args) = 7

\* the parameter names a policy text references, in order
RECURSIVE ReferencedParams(_)
ReferencedParams(text) ==
    IF Len(text) < 2 THEN <<>>
    ELSE IF Head(text) = "(subpath (param \""
         THEN << text[2] >> \o ReferencedParams(Tail(Tail(text)))
         ELSE ReferencedParams(Tail(text))

HelperGiven ==
    /\ params.sandbox_type = "LinuxSeccomp"
    /\ params.codex_linux_sandbox_exe # <<>>

LinuxLayout ==
    /\ child.args = << << to_string_lossy(params.cwd) >>,
                       PolicyJson(params.sandbox_policy), << "--" >> >>
                       \o [i \in 1..Len(params.command) |->
                              << params.command[i] >>]
    /\ child.exe = params.codex_linux_sandbox_exe[1]
    /\ child.arg0 = "codex-linux-sandbox"

\* C17: for every command, policy and cwd, a LinuxSeccomp call with a helper
\* path builds the argument list [cwd, policy JSON, "--", command...] and
\* hands it to the spawn, with the helper path as program and argv[0] =
\* "codex-linux-sandbox": the call never ends in a panic while building it.
C17_HelperLayout ==
    (HelperGiven /\ pc \in {"consume", "panicked"}) =>
       Spawned /\ LinuxLayout

Woken(c) == c \in ctrl_c.woken

\* C19 as stated: every call that was waiting in the race when the notifier
\* fired takes its interrupt path: once it has left the race, the interrupt
\* branch decided it, the kill was requested and the status is 128+9.
C19_AsStated ==
    \A c \in DOMAIN calls :
       (Woken(c) /\ calls[c].pc # "race") =>
          /\ calls[c].branch = "interrupt"
          /\ calls[c].kill_requested
          /\ calls[c].exit_status = 128 + 9

\* C19 (amended): every call that was waiting in the race when the notifier
\* fired has its interrupt branch ready for as long as it stays in the race,
\* whatever the other calls do; it leaves the race by the exit or timeout
\* branch only if that branch was ready too; a call leaves by the interrupt
\* branch only if it was waiting at a firing, and then the kill is requested
\* and, when start_kill succeeds, the status is 128+9.
C19_SharedNotifier ==
    \A c \in DOMAIN calls :
       /\ (Woken(c) /\ calls[c].pc = "race") => calls[c].interrupted = "ready"
       /\ (calls[c].pc = "race" /\ ~Woken(c)) => calls[c].interrupted = "pending"
       /\ calls[c].branch \in {"exit", "wait_error"} =>
             calls[c].child.state \in {"exited", "reaped"}
       /\ calls[c].branch = "timeout" => calls[c].timer_elapsed
       /\ calls[c].branch = "interrupt" =>
             /\ Woken(c)
             /\ calls[c].kill_requested
             /\ calls[c].child.killed \/ calls[c].child.kill_refused
             /\ calls[c].pc = "join" =>
                   /\ calls[c].child.killed
                   /\ calls[c].exit_status = 128 + 9

\* the notifier fired once while two calls were in the race, and both left
\* it by the interrupt branch with the status 128+9
C19_Witness ==
    /\ calls # <<>>
    /\ ctrl_c.fires = 1
    /\ {1, 2} \subseteq ctrl_c.woken
    /\ \A c \in {1, 2} :
          /\ calls[c].branch = "interrupt"
          /\ calls[c].pc = "join"
          /\ calls[c].exit_status = 128 + 9

\* C20: the duration a call races against child.wait() is its timeout_ms
\* when the request gives one and 10000 ms when it gives none, from the
\* moment the race begins and for as long as the call lasts; the timer does
\* not complete, and the timeout branch is not taken, before that many ms
\* have passed since the race began.
C20_DefaultTimeout ==
    \A c \in DOMAIN calls :
       LET given == calls[c].timeout_ms
           due == IF given = <<>> THEN 10000 ELSE given[1]
       IN  /\ calls[c].pc = "consume" => calls[c].timeout = <<>>
           /\ calls[c].pc # "consume" => calls[c].timeout = << due >>
           /\ calls[c].timer_elapsed => calls[c].elapsed >= due
           /\ calls[c].branch = "timeout" =>
                 calls[c].timer_elapsed /\ calls[c].elapsed >= due

\* a call without timeout_ms left the race by the timeout branch 10000 ms
\* after it began, and a call with a shorter timeout_ms by the timeout
\* branch when that had passed
C20_Witness ==
    /\ calls # <<>>
    /\ \E c \in DOMAIN calls :
          /\ calls[c].timeout_ms = <<>>
          /\ calls[c].branch = "timeout"
          /\ calls[c].elapsed = 10000
    /\ \E c \in DOMAIN calls :
          /\ calls[c].timeout_ms # <<>>
          /\ calls[c].timeout_ms[1] > 0
          /\ calls[c].branch = "timeout"
          /\ calls[c].elapsed = calls[c].timeout_ms[1]
          /\ calls[c].elapsed < 10000

\* C21: a status synthesized on the timeout path is the raw value 128+64 and
\* one synthesized on the interrupt path is 128+9; under the unix encoding
\* (the signal is raw mod 128 when that is neither 0 nor 127, and there is no
\* exit code then) the first carries the signal 64 that the classifier's
\* timeout rule matches and the second the signal 9; neither has an exit
\* code, and the result is Sandbox(Timeout), resp. Sandbox(Signal(9)), never
\* Ok or Denied, for every selector.
C21_SyntheticStatusDecoding ==
    (race.branch \in {"timeout", "interrupt"} /\ raw_output # NoRawOutput) =>
       LET raw == raw_output.exit_status
           signal == IF race.branch = "timeout" THEN 64 ELSE 9
       IN  /\ raw = 128 + signal
           /\ raw % 128 = signal
           /\ raw % 128 \notin {0, 127}
           /\ ExitStatusSignal(raw) = << signal >>
           /\ ExitStatusCode(raw) = <<>>
           /\ result.tag \notin {"Ok", "Sandbox.Denied"}
           /\ result.tag = IF race.branch = "timeout"
                           THEN "Sandbox.Timeout" ELSE "Sandbox.Signal"
           /\ race.branch = "interrupt" => result.n = 9

\* a sandboxed call whose status was synthesized as 128+64 returned
\* Sandbox(Timeout) with output captured on both streams
C21_Witness ==
    /\ pc = "returned"
    /\ params.sandbox_type = "MacosSeatbelt"
    /\ raw_output.exit_status = 192
    /\ raw_output.stdout # <<>>
    /\ result.tag = "Sandbox.Timeout"

\* the pieces of a policy text between its line feeds
RECURSIVE Fragments(_)
Fragments(text) ==
    LET at == {i \in 1..Len(text) : text[i] = "\n"}
    IN  IF at = {} THEN << text >>
        ELSE LET i == CHOOSE j \in at : \A k \in at : j <= k
             IN  << SubSeq(text, 1, i - 1) >>
                     \o Fragments(SubSeq(text, i + 1, Len(text)))

\* C22: the policy text given to sandbox-exec is four pieces joined by line
\* feeds, in this order: the base policy, the read fragment, the write
\* fragment, the network fragment.  The read fragment is non-empty iff the
\* policy has full disk read, the network fragment iff it has full network,
\* and the write fragment is empty exactly when the policy has neither full
\* disk write nor a writable root for cwd.
C22_PolicyFragments ==
    (Spawned /\ params.sandbox_type = "MacosSeatbelt") =>
       LET policy == params.sandbox_policy
           pieces == Fragments(child.args[2])
       IN  /\ Len(pieces) = 4
           /\ pieces[1] = << "<seatbelt_base_policy.sbpl>" >>
           /\ pieces[2] = IF policy.full_disk_read
                          THEN << "; allow read-only file operations\n(allow file-read*)" >>
                          ELSE <<>>
           /\ pieces[3] = <<>> <=>
                 /\ ~policy.full_disk_write
                 /\ policy.writable_roots[params.cwd] = <<>>
           /\ pieces[3] # <<>> =>
                 pieces[3][1] \in {"(allow file-write* (regex #\"^/\"))",
                                   "(allow file-write*\n"}
           /\ pieces[4] = IF policy.full_network
                          THEN << "(allow network-outbound)\n(allow network-inbound)\n(allow system-socket)" >>
                          ELSE <<>>

\* sandbox-exec was spawned with a policy text whose read and network
\* fragments are there and whose write fragment is empty
C22_Witness ==
    /\ Spawned
    /\ params.sandbox_type = "MacosSeatbelt"
    /\ params.sandbox_policy.full_disk_read
    /\ params.sandbox_policy.full_network
    /\ Len(Fragments(child.args[2])) = 4
    /\ Fragments(child.args[2])[3] = <<>>
    /\ Fragments(child.args[2])[4] # <<>>

\* C23: when the race is decided by the child's exit, no kill is requested,
\* the status held, and the one returned in the raw output, is the status
\* the child ended with, and this stays so while the cappers are joined,
\* also when the timeout's duration passes in the meantime: the branch that
\* decided the race and the status never change afterwards.
C23_TimeoutScope ==
    /\ race.branch = "exit" =>
          /\ ~race.kill_requested
          /\ ~child.killed
          /\ child.state = "reaped"
          /\ exit_status = child.status
          /\ exit_status \in NaturalStatuses \cup {13}
          /\ raw_output # NoRawOutput => raw_output.exit_status = child.status
    /\ race.deadline_passed =>
          /\ race.branch \in {"exit", "interrupt"}
          /\ exit_status # 128 + 64

\* the child's exit decided the race, the duration passed while the cappers
\* were still reading a long output, and the call returned Ok with the
\* child's exit status 0
C23_Witness ==
    /\ race.branch = "exit"
    /\ race.deadline_passed
    /\ pc = "returned"
    /\ raw_output.exit_status = 0
    /\ result.tag = "Ok"
    /\ raw_output.stdout # <<>>

\* C24: a read_capped whose read failed returns the error and none of the
\* bytes it had captured; a call that has returned while a capper had failed
\* returned an I/O error and no RawExecToolCallOutput, whichever branch
\* decided the race: its result is never Ok, Denied, Timeout or Signal.
C24_CapperErrorPropagation ==
    /\ \A s \in Streams : capper[s].pc = "err" => capper[s].buf = <<>>
    /\ (pc = "returned" /\ \E s \in Streams : capper[s].pc = "err") =>
          /\ result.tag = "Io.Other"
          /\ result.stdout = <<>> /\ result.stderr = <<>>
          /\ raw_output = NoRawOutput
          /\ result.tag \notin {"Ok", "Sandbox.Denied", "Sandbox.Timeout",
                                "Sandbox.Signal"}

\* after the timeout branch, the stdout capper returned what it had captured
\* and a read of stderr failed: the call returned the I/O error
C24_Witness ==
    /\ pc = "returned"
    /\ race.branch = "timeout"
    /\ exit_status = 128 + 64
    /\ capper["stdout"].pc = "ok"
    /\ capper["stdout"].buf # <<>>
    /\ capper["stderr"].pc = "err"
    /\ ByteLen(written["stderr"]) > 0
    /\ result.tag = "Io.Other"

\* C25: whatever chunks the reads have returned so far, the buffer of a
\* read_capped is the one it would hold had the same bytes come in a single
\* chunk: it depends on the bytes read and the budgets alone, also when a
\* budget ran out in the middle of a chunk.
C25_ChunkIndependence ==
    \A s \in Streams :
       capper[s].pc \in {"reading", "ok"} =>
          LET bytes == TakeBytes(written[s], capper[s].consumed)
              fresh == ReadCappedStart(capper[s].max_output,
                                       capper[s].max_lines)
              once == IF bytes = <<>> THEN fresh
                      ELSE ReadCappedChunk(fresh, bytes)
          IN  /\ capper[s].buf = once.buf
              /\ capper[s].remaining_bytes = once.remaining_bytes
              /\ capper[s].remaining_lines = once.remaining_lines

\* a read_capped returned after a budget ran out in the middle of a chunk,
\* with bytes in its buffer and more bytes read than kept
C25_Witness ==
    /\ capper["stdout"].pc = "ok"
    /\ capper["stdout"].cut
    /\ capper["stdout"].buf # <<>>
    /\ capper["stdout"].consumed >= 3
    /\ capper["stdout"].consumed = ByteLen(written["stdout"])
    /\ ByteLen(capper["stdout"].buf) < capper["stdout"].consumed

\* C26: a call returns Sandbox(Timeout) only if the timer elapsed, the
\* timeout branch decided the race and the kill was requested; a call whose
\* race the child's exit decided never returns Sandbox(Timeout), whatever
\* status or signal the child ended with.
C26_TimeoutSoundness ==
    (pc = "returned" /\ result.tag = "Sandbox.Timeout") =>
       /\ race.branch = "timeout"
       /\ race.timer_elapsed
       /\ race.kill_requested

\* C27: in a call whose notifier has fired and which has not returned yet,
\* the call is never stuck: select!, the child, a capper or a join can take
\* a step, whatever a process holding the write ends of the pipes does
\* (without which the call cannot eventually return).
C27_InterruptResponsiveness ==
    (race.notified /\ pc \in {"race", "join_stdout", "join_stderr"}) =>
       ENABLED (\/ SelectExit \/ SelectWaitError \/ SelectTimeout
                \/ SelectInterrupt \/ CallProgress)

\* C28: a call for which the notifier fired after its child was spawned and
\* before it created its wait on the notifier still observes that
\* notification: in the race its interrupt branch is ready, and it does not
\* leave the race by the child's exit or by the timeout with the notification
\* unseen. Every call here begins with its child spawned, so every firing
\* comes after the spawn: once the notifier has fired, a call in the race
\* either was waiting then or created its wait after that firing.
C28_NoLostInterrupt ==
    \A c \in DOMAIN calls :
       (ctrl_c.fires > 0 /\ calls[c].pc = "race") =>
          calls[c].interrupted = "ready"

Synthesized == race.branch \in {"timeout", "interrupt"} /\ exit_status # NoStatus

\* C29 as stated: start_kill is requested exactly in the calls whose status
\* is synthesized.
C29_AsStated ==
    pc \in {"join_stdout", "join_stderr", "returned"} =>
       (race.kill_requested <=> Synthesized)

\* C29 (amended): one branch decides the race, once: the status the call
\* holds is the child's own after the exit branch, 128+64 after the timeout
\* branch and 128+9 after the interrupt branch.  start_kill is requested
\* exactly in the calls whose race the timeout or the interrupt branch
\* decided, once, the race being over then; a status is synthesized exactly
\* when that start_kill succeeded, and when it failed the call returns the
\* error and no status.  A raw output returned after a kill was requested
\* holds a synthesized status, never the status child.wait() gave.
C29_RaceExclusivity ==
    /\ pc \in {"join_stdout", "join_stderr"} =>
          race.branch \in {"exit", "timeout", "interrupt"}
    /\ exit_status # NoStatus =>
          /\ race.branch \in {"exit", "timeout", "interrupt"}
          /\ race.branch = "exit" => exit_status = child.status
          /\ race.branch = "timeout" => exit_status = 128 + 64
          /\ race.branch = "interrupt" => exit_status = 128 + 9
    /\ race.kill_requested <=> race.branch \in {"timeout", "interrupt"}
    /\ race.kill_requested => pc \notin {"consume", "race"}
    /\ Synthesized => race.kill_requested /\ child.killed
    /\ (race.kill_requested /\ ~Synthesized) =>
          /\ child.kill_refused
          /\ pc = "returned"
          /\ result.tag = "Io.Other"
    /\ raw_output # NoRawOutput =>
          /\ raw_output.exit_status = exit_status
          /\ race.kill_requested <=>
                raw_output.exit_status \in {128 + 64, 128 + 9}

\* the child had exited by itself and the timer had elapsed when the
\* interrupt branch was taken: the raw output holds 128+9, not the child's
\* exit status 0
C29_Witness ==
    /\ race.branch = "interrupt"
    /\ race.timer_elapsed
    /\ child.state = "exited"
    /\ child.status = 0
    /\ race.kill_requested
    /\ raw_output # NoRawOutput
    /\ raw_output.exit_status = 128 + 9

\* C30: when a call that spawned its cappers has returned, with a result or
\* with an error, both read_capped tasks have terminated: none is still
\* reading its pipe.
C30_NoCapperOutlivesCall ==
    (pc = "returned" /\ race.branch # "none") =>
       \A s \in Streams : capper[s].pc \in {"ok", "err"}

=============================================================================
